---- MODULE Spec2Model ----
(***************************************************************************)
(* tender-monitor: the daily run of scraper.main (load the seen set, run   *)
(* the four scrapers, keep the unseen tenders, mail the digest, save the   *)
(* seen set), the keyword classifier match_keywords, and the dict-based    *)
(* history of history.py (filter_new_tenders).                             *)
(*                                                                         *)
(* Strings are sequences of one-character strings, so that lower(),        *)
(* strip(), substring tests and sorted() are computed, not assumed.        *)
(***************************************************************************)
EXTENDS Integers, Sequences, FiniteSets, TLC

VARIABLES
    \* ---- scraper.main ----
    file,          \* seen_tenders.json: [exists, text]
    file0,         \* the file as it was when the current run started
    pc,            \* position of main
    wr,            \* TRUE while save_seen holds the file open for writing
    err,           \* the step whose exception left main ("none" if none)
    seen,          \* main: seen
    updated_seen,  \* main: updated_seen
    new_items,     \* main: new_items, a list of <<source_name, tender>>
    i,             \* index into sources of the source being scraped
    tenders,       \* main: tenders, what the last successful func() returned
    results,       \* per source, what func() did in this run
    replay,        \* this run sees the candidates of the previous run again
    sent,          \* send_email returned in this run
    saves,         \* calls of save_seen in this run
    body,          \* main: body_html and body_text, once built
    \* ---- match_keywords, for any taxonomy ----
    tier1, tier2,  \* the keyword lists in the place of TIER1_KEYWORDS, TIER2_KEYWORDS
    text, verdict, \* the text classified and what match_keywords returned
    \* ---- history.py ----
    history,       \* the history dict (key -> provenance)
    batch,         \* the tenders argument of the last filter_new_tenders call
    new_tenders,   \* what that call returned
    history_in,    \* the history dict as it was when that call started
    \* ---- load_seen, load_history ----
    stored,        \* the history file a loader is called on
    loaded,        \* the loader called last and what the call came to
    \* ---- fetch_many ----
    urls,          \* fetch_many: urls
    max_workers,   \* fetch_many: max_workers
    fpc,           \* position of the thread that called fetch_many
    unique_urls,   \* fetch_many: unique_urls
    futures,       \* the futures submitted, in order: [url, state, resp, r]
    yielded,       \* the futures as_completed has yielded
    fetch_results, \* fetch_many: results
    escaping       \* an exception is on its way out of the with block

mainVars == <<file, file0, pc, wr, err, seen, updated_seen, new_items, i,
              tenders, results, replay, sent, saves, body>>
matchVars == <<tier1, tier2, text, verdict>>
histVars == <<history, batch, new_tenders, history_in>>
loadVars == <<stored, loaded>>
fetchVars == <<urls, max_workers, fpc, unique_urls, futures, yielded,
               fetch_results, escaping>>
vars == <<mainVars, matchVars, histVars, loadVars, fetchVars>>

----------------------------------------------------------------------------
\* Bounds of the model.

\* Tenders the scrapers return in one run, all sources together; also the
\* longest listing of one scraper.
MaxTenders == 2
\* Longest text given to match_keywords, and longest keyword list.
MaxLen == 2
MaxKw == 2
\* Longest tenders argument of filter_new_tenders.
MaxBatch == 2
\* Most JSON tokens in the text of a history file.
MaxFileLen == 3
\* Longest urls argument of fetch_many.
MaxUrls == 3
\* Largest max_workers argument of fetch_many.
MaxWorkers == 2

----------------------------------------------------------------------------
\* Strings.

\* Python's None where a string is expected (a failed fetch, a missing field).
None == <<"None">>

\* Code points, for sorted().
Code(c) ==
    CASE c = " " -> 32
      [] c = "A" -> 65
      [] c = "B" -> 66
      [] c = "U" -> 85
      [] c = "a" -> 97
      [] c = "b" -> 98
      [] c = "u" -> 117
      [] c = "v" -> 118
      [] c = "|" -> 124
      [] OTHER -> 127

\* str.lower(), per character.
LowerChar(c) ==
    CASE c = "A" -> "a"
      [] c = "B" -> "b"
      [] c = "U" -> "u"
      [] OTHER -> c

Lower(s) == [k \in 1..Len(s) |-> LowerChar(s[k])]

\* str.strip(): leading and trailing blanks removed.
RECURSIVE StripLeft(_)
StripLeft(s) ==
    IF s # <<>> /\ Head(s) = " " THEN StripLeft(Tail(s)) ELSE s

RECURSIVE StripRight(_)
StripRight(s) ==
    IF s # <<>> /\ s[Len(s)] = " "
    THEN StripRight(SubSeq(s, 1, Len(s) - 1)) ELSE s

Strip(s) == StripRight(StripLeft(s))

\* Python's `kw in text` for strings.
IsSubstr(kw, s) ==
    \E k \in 0..(Len(s) - Len(kw)) : SubSeq(s, k + 1, k + Len(kw)) = kw

\* Python's < on strings: lexicographic by code point.
RECURSIVE StrLess(_, _)
StrLess(a, b) ==
    IF b = <<>> THEN FALSE
    ELSE IF a = <<>> THEN TRUE
    ELSE IF Code(Head(a)) # Code(Head(b)) THEN Code(Head(a)) < Code(Head(b))
    ELSE StrLess(Tail(a), Tail(b))

\* sorted(list(S)) for a set of strings.
RECURSIVE Sorted(_)
Sorted(S) ==
    IF S = {} THEN <<>>
    ELSE LET m == CHOOSE x \in S : \A y \in S \ {x} : StrLess(x, y)
         IN  <<m>> \o Sorted(S \ {m})

Range(q) == {q[k] : k \in DOMAIN q}

\* All sequences over S of length at most n.
SeqsUpTo(S, n) == UNION {[1..k -> S] : k \in 0..n}

----------------------------------------------------------------------------
\* seen_tenders.json.  The text of the file is a sequence of JSON tokens, so
\* that a file cut short is not a JSON document.

Tok(t, v) == [t |-> t, v |-> v]

\* json.dump(sorted(list(seen_ids)), f): a JSON array of strings.
JsonList(q) ==
    <<Tok("[", <<>>)>> \o [k \in 1..Len(q) |-> Tok("s", q[k])] \o <<Tok("]", <<>>)>>

\* json.dump of a dict with the entries q (what history.py's save_history
\* writes to the same file name).
JsonDict(q) ==
    <<Tok("{", <<>>)>> \o [k \in 1..Len(q) |-> Tok("k", q[k])] \o <<Tok("}", <<>>)>>

IsJsonList(tx) ==
    /\ Len(tx) >= 2
    /\ tx[1].t = "[" /\ tx[Len(tx)].t = "]"
    /\ \A k \in 2..(Len(tx) - 1) : tx[k].t = "s"

IsJsonDict(tx) ==
    /\ Len(tx) >= 2
    /\ tx[1].t = "{" /\ tx[Len(tx)].t = "}"
    /\ \A k \in 2..(Len(tx) - 1) : tx[k].t = "k"

\* json.load succeeds.
IsJson(tx) == IsJsonList(tx) \/ IsJsonDict(tx)

Absent == [exists |-> FALSE, readable |-> TRUE, text |-> <<>>]
OnDisk(tx) == [exists |-> TRUE, readable |-> TRUE, text |-> tx]
\* A file that is there and that open() cannot read.
Unreadable(tx) == [exists |-> TRUE, readable |-> FALSE, text |-> tx]

\* What a call comes to: a value returned, or an exception raised.
Ret(v) == [raised |-> FALSE, exc |-> "none", val |-> v]
Exc(kind) == [raised |-> TRUE, exc |-> kind, val |-> {}]

\* `with open(FILE, "r") as f: data = json.load(f)`: the items of the
\* document read, OSError when the file cannot be opened, JSONDecodeError
\* when its text is no JSON document.
json_load(f) ==
    IF ~f.readable THEN Exc("OSError")
    ELSE IF ~IsJson(f.text) THEN Exc("JSONDecodeError")
    ELSE Ret([k \in 1..(Len(f.text) - 2) |-> f.text[k + 1].v])

\* A handler that catches the decoding error only.
except_ValueError(r, default) ==
    IF r.raised /\ r.exc = "JSONDecodeError" THEN Ret(default) ELSE r

\* `except Exception: return <default>`
except_Exception(r, default) ==
    IF r.raised THEN Ret(default) ELSE r

\* The call load_seen().
load_seen_call(f) ==
    IF f.exists
    THEN LET data == json_load(f)
             tried == IF data.raised THEN data
                      ELSE IF IsJsonList(f.text)      \* isinstance(data, list)
                      THEN Ret(Range(data.val))       \* set(data)
                      ELSE Ret({})
         IN  except_Exception(tried, {})
    ELSE Ret({})

\* load_seen(), a call that returned.
load_seen(f) == load_seen_call(f).val

\* The call load_history(): the dict read, as a function from its keys.
load_history_call(f) ==
    IF ~f.exists THEN Ret(<<>>)
    ELSE LET data == json_load(f)
             tried == IF data.raised THEN data
                      ELSE IF IsJsonDict(f.text)      \* isinstance(data, dict)
                      THEN Ret([key \in {e.key : e \in Range(data.val)} |->
                                  LET last == CHOOSE k \in DOMAIN data.val :
                                          /\ data.val[k].key = key
                                          /\ \A m \in DOMAIN data.val :
                                                 data.val[m].key = key => m <= k
                                  IN  data.val[last].value])
                      ELSE Ret(<<>>)
         IN  except_Exception(tried, <<>>)

\* save_seen handed the set that was loaded instead of the updated one.
SeenDumpStale(seen_ids) == JsonList(Sorted(seen))

\* What save_seen(seen_ids) writes.
SeenDump(seen_ids) == JsonList(Sorted(seen_ids))

----------------------------------------------------------------------------
\* Keyword matching (Tier 1 required).

\* match_keywords without the Tier 1 gate: any text is a match.
match_keywords_ungated(tx, t1, t2) ==
    LET low == Lower(tx)
    IN  [match |-> TRUE,
         tier1 |-> SelectSeq(t1, LAMBDA kw : IsSubstr(kw, low)),
         tier2 |-> SelectSeq(t2, LAMBDA kw : IsSubstr(kw, low))]

\* match_keywords without `text = text.lower()`.
match_keywords_nolower(tx, t1, t2) ==
    LET tier1_hits == SelectSeq(t1, LAMBDA kw : IsSubstr(kw, tx))
        tier2_hits == SelectSeq(t2, LAMBDA kw : IsSubstr(kw, tx))
    IN  IF tier1_hits = <<>>
        THEN [match |-> FALSE, tier1 |-> <<>>, tier2 |-> <<>>]
        ELSE [match |-> TRUE, tier1 |-> tier1_hits, tier2 |-> tier2_hits]

\* match_keywords(text), with the module globals TIER1_KEYWORDS and
\* TIER2_KEYWORDS passed as t1 and t2.
match_keywords(tx, t1, t2) ==
    LET low == Lower(tx)
        tier1_hits == SelectSeq(t1, LAMBDA kw : IsSubstr(kw, low))
        tier2_hits == SelectSeq(t2, LAMBDA kw : IsSubstr(kw, low))
    IN  IF tier1_hits = <<>>
        THEN [match |-> FALSE, tier1 |-> <<>>, tier2 |-> <<>>]
        ELSE [match |-> TRUE, tier1 |-> tier1_hits, tier2 |-> tier2_hits]

\* The taxonomy the runs of main use, imported from keywords.py: one keyword
\* per tier stands for the lists.
TIER1_KEYWORDS == << <<"a">> >>
TIER2_KEYWORDS == << <<"b">> >>

----------------------------------------------------------------------------
\* The scrapers.

\* ("UNDP Consultancies", scrape_undp_consultancies), ...
sources == <<"UNDP Consultancies", "UNDP Procurement Notices",
             "ReliefWeb", "World Bank eProcure">>

\* What the listing pages can hold: jobs with a non-empty title and a url.
Jobs == { [title |-> <<"A">>, url |-> <<"u">>],
          [title |-> <<"b">>, url |-> <<"v">>] }
Urls == {j.url : j \in Jobs}
\* What a detail page can be: a failed fetch, or its text.
Pages == {None, <<"a">>, <<"b">>}

\* The second half of scrape_undp_consultancies, scrape_undp_procurement,
\* scrape_reliefweb and scrape_world_bank: from the listed jobs and the
\* fetched detail pages to the tenders returned.
RECURSIVE scrape_details(_, _)
scrape_details(jobs, html_map) ==
    IF jobs = <<>> THEN <<>>
    ELSE LET job == Head(jobs)
             detail_html == html_map[job.url]
             rest == scrape_details(Tail(jobs), html_map)
         IN  IF detail_html = None \/ detail_html = <<>>
             THEN rest
             ELSE LET full_text == Lower(detail_html)
                      combined == Lower(job.title) \o <<" ">> \o full_text
                      m == match_keywords(combined, TIER1_KEYWORDS, TIER2_KEYWORDS)
                  IN  IF m.match
                      THEN <<[id |-> job.url, title |-> job.title,
                              url |-> job.url, tier1 |-> m.tier1,
                              tier2 |-> m.tier2]>> \o rest
                      ELSE rest

\* Everything a scraper can return: what scrape_details makes of any listing
\* and any outcome of the detail fetches.
ScrapeOutcomes ==
    {scrape_details(jobs, html_map) :
        jobs \in SeqsUpTo(Jobs, MaxTenders), html_map \in [Urls -> Pages]}

----------------------------------------------------------------------------
\* main: the loop over the tenders of one source.

\* The membership test left out.
NotSeenAlways(t, seen_, updated_seen_) == TRUE

\* `t["id"] not in seen`
NotSeen(t, seen_, updated_seen_) == t.id \notin seen_

\* The loop with new_items.insert(0, ...) in the place of append.
RECURSIVE for_tenders_prepended(_, _, _, _, _)
for_tenders_prepended(source_name, ts, seen_, items, upd) ==
    IF ts = <<>> THEN [new_items |-> items, updated_seen |-> upd]
    ELSE LET t == Head(ts)
         IN  IF NotSeen(t, seen_, upd)
             THEN for_tenders_prepended(source_name, Tail(ts), seen_,
                              <<[source |-> source_name, t |-> t]>> \o items,
                              upd \cup {t.id})
             ELSE for_tenders_prepended(source_name, Tail(ts), seen_, items, upd)

\* `for t in tenders:` with its test, new_items.append((source_name, t)) and
\* updated_seen.add(t["id"]).
RECURSIVE for_tenders(_, _, _, _, _)
for_tenders(source_name, ts, seen_, items, upd) ==
    IF ts = <<>> THEN [new_items |-> items, updated_seen |-> upd]
    ELSE LET t == Head(ts)
         IN  IF NotSeen(t, seen_, upd)
             THEN for_tenders(source_name, Tail(ts), seen_,
                              Append(items, [source |-> source_name, t |-> t]),
                              upd \cup {t.id})
             ELSE for_tenders(source_name, Tail(ts), seen_, items, upd)

\* The handler without its `continue`: the loop over tenders runs on what the
\* previous source returned.
scrape_error_fallthrough(source_name, ts, seen_, items, upd) ==
    for_tenders(source_name, ts, seen_, items, upd)

\* `except Exception as e: print(...); continue`: the loop over tenders is
\* skipped for a source whose scraper raised.
scrape_error(source_name, ts, seen_, items, upd) ==
    [new_items |-> items, updated_seen |-> upd]

----------------------------------------------------------------------------
\* build_email_bodies: the digest, as the list `lines` joined into body_text
\* and the list `html` joined into body_html.

Line(kind, v) == [kind |-> kind, v |-> v]

\* `current_source = None`: equal to no source name.
NoSource == "None"

\* A heading for every item.
NewSourceAlways(source, current_source) == TRUE

\* `if source != current_source`
NewSource(source, current_source) == source # current_source

\* The lines of one tender: its title, its url and the tiers that matched.
ItemLines(t) ==
    <<Line("title", t.title), Line("url", t.url)>>
        \o (IF t.tier1 # <<>> THEN <<Line("tier1", t.tier1)>> ELSE <<>>)
        \o (IF t.tier2 # <<>> THEN <<Line("tier2", t.tier2)>> ELSE <<>>)

\* The loop `for source, t in tenders_with_source` of the plain text: the
\* source name and its underline when the source changes, then the tender.
RECURSIVE text_lines(_, _)
text_lines(items, current_source) ==
    IF items = <<>> THEN <<>>
    ELSE LET source == Head(items).source
             heading == IF NewSource(source, current_source)
                        THEN <<Line("heading", source), Line("rule", source)>>
                        ELSE <<>>
         IN  heading \o ItemLines(Head(items).t) \o text_lines(Tail(items), source)

\* The same loop of the HTML: an <h3> and an <hr> when the source changes,
\* then the tender's <div>.
RECURSIVE html_parts(_, _)
html_parts(items, current_source) ==
    IF items = <<>> THEN <<>>
    ELSE LET source == Head(items).source
             heading == IF NewSource(source, current_source)
                        THEN <<Line("heading", source)>>
                        ELSE <<>>
         IN  heading \o ItemLines(Head(items).t) \o <<Line("/div", <<>>)>>
                 \o html_parts(Tail(items), source)

\* build_email_bodies(tenders_with_source)
build_email_bodies(tenders_with_source) ==
    IF tenders_with_source = <<>>
    THEN [html |-> <<Line("none", <<>>)>>, text |-> <<Line("none", <<>>)>>]
    ELSE [html |-> <<Line("banner", <<>>)>>
                       \o html_parts(tenders_with_source, NoSource)
                       \o <<Line("/html", <<>>)>>,
          text |-> <<Line("banner", <<>>)>>
                       \o text_lines(tenders_with_source, NoSource)]

\* Before build_email_bodies has returned.
NoBody == [html |-> <<>>, text |-> <<>>]

----------------------------------------------------------------------------
\* main, step by step.

\* save_seen called before the digest is sent.
MainOrderSaveFirst == <<"digest", "save", "creds", "send">>

\* The statements of main after the loop over the sources, in program order.
MainOrder == <<"digest", "creds", "send", "save">>

After(p) ==
    LET k == CHOOSE n \in DOMAIN MainOrder : MainOrder[n] = p
    IN  IF k = Len(MainOrder) THEN "done" ELSE MainOrder[k + 1]

Pending == [state |-> "pending", tenders |-> <<>>]
Returned(ts) == [state |-> "returned", tenders |-> ts]
Raised == [state |-> "raised", tenders |-> <<>>]

RECURSIVE TotalTenders(_, _)
TotalTenders(res, n) ==
    IF n = 0 THEN 0 ELSE Len(res[n].tenders) + TotalTenders(res, n - 1)

\* A posting an earlier run found and recorded: the one Jobs lists as "A" at
\* "u", as the site wrote it then.
EarlierPosting == [title |-> <<"a">>, url |-> <<"U">>]

\* The files a first run can find: none, the dict history.py writes under
\* the same name, or the list saved by the run that recorded EarlierPosting.
InitFiles ==
    {Absent, OnDisk(JsonDict(<<>>)), OnDisk(JsonList(<<EarlierPosting.url>>))}

MainFresh ==
    /\ file0 = file
    /\ pc = "start"
    /\ wr = FALSE
    /\ err = "none"
    /\ seen = {}
    /\ updated_seen = {}
    /\ new_items = <<>>
    /\ i = 1
    /\ tenders = <<>>
    /\ results = [n \in DOMAIN sources |-> Pending]
    /\ replay = FALSE
    /\ sent = FALSE
    /\ saves = 0
    /\ body = NoBody

InitMain ==
    /\ file \in InitFiles
    /\ MainFresh

IdleMain == file = Absent /\ MainFresh
\* seen = load_seen(); updated_seen = set(seen); new_items = []
LoadSeen ==
    /\ pc = "start"
    /\ seen' = load_seen(file)
    /\ updated_seen' = seen'
    /\ new_items' = <<>>
    /\ i' = 1
    /\ pc' = "scrape"
    /\ UNCHANGED <<file, file0, wr, err, tenders, results, replay, sent, saves,
                   body>>

AfterSource == IF i = Len(sources) THEN MainOrder[1] ELSE "scrape"

\* One turn of the loop over sources where func() returns: the scraper lists
\* jobs, fetches their detail pages and returns the matching tenders, and
\* main keeps the unseen ones.
ScrapeReturn ==
    /\ pc = "scrape"
    /\ \E ts \in ScrapeOutcomes :
         LET r == for_tenders(sources[i], ts, seen, new_items, updated_seen)
         IN  /\ IF replay
                THEN results[i] = Returned(ts)
                ELSE TotalTenders(results, Len(sources)) + Len(ts) <= MaxTenders
             /\ tenders' = ts
             /\ results' = [results EXCEPT ![i] = Returned(ts)]
             /\ new_items' = r.new_items
             /\ updated_seen' = r.updated_seen
    /\ i' = i + 1
    /\ pc' = AfterSource
    /\ UNCHANGED <<file, file0, wr, err, seen, replay, sent, saves, body>>

\* One turn of the loop over sources where func() raises.
ScrapeRaise ==
    /\ pc = "scrape"
    /\ replay => results[i] = Raised
    /\ LET r == scrape_error(sources[i], tenders, seen, new_items, updated_seen)
       IN  /\ new_items' = r.new_items
           /\ updated_seen' = r.updated_seen
    /\ results' = [results EXCEPT ![i] = Raised]
    /\ i' = i + 1
    /\ pc' = AfterSource
    /\ UNCHANGED <<file, file0, wr, err, seen, tenders, replay, sent, saves,
                   body>>

Step(p) ==
    /\ pc = p
    /\ pc' = After(p)
    /\ UNCHANGED <<file, file0, wr, err, seen, updated_seen, new_items, i,
                   tenders, results, replay, saves>>

Raise(p) ==
    /\ pc = p
    /\ pc' = "raised"
    /\ err' = p
    /\ UNCHANGED <<file, file0, wr, seen, updated_seen, new_items, i,
                   tenders, results, replay, sent, saves, body>>

\* body_html, body_text = build_email_bodies(new_items)
BuildEmail ==
    /\ Step("digest")
    /\ body' = build_email_bodies(new_items)
    /\ UNCHANGED sent
BuildEmailRaise == Raise("digest")

\* creds = Credentials.from_authorized_user_file("token.json")
LoadCreds == Step("creds") /\ UNCHANGED <<sent, body>>
LoadCredsRaise == Raise("creds")

\* send_email(...)
SendEmail == Step("send") /\ sent' = TRUE /\ UNCHANGED body
SendEmailRaise == Raise("send")

\* save_seen(updated_seen): open(SEEN_FILE, "w") truncates the file.
SaveOpen ==
    /\ pc = "save" /\ ~wr
    /\ file' = OnDisk(<<>>)
    /\ wr' = TRUE
    /\ saves' = saves + 1
    /\ UNCHANGED <<file0, pc, err, seen, updated_seen, new_items, i, tenders,
                   results, replay, sent, body>>

\* open(SEEN_FILE, "w") raises: nothing is written.
SaveOpenRaise ==
    /\ pc = "save" /\ ~wr
    /\ saves' = saves + 1
    /\ pc' = "raised"
    /\ err' = "save"
    /\ UNCHANGED <<file, file0, wr, seen, updated_seen, new_items, i, tenders,
                   results, replay, sent, body>>

\* json.dump(sorted(list(seen_ids)), f, indent=2) and the close of the file.
SaveWrite ==
    /\ pc = "save" /\ wr
    /\ file' = OnDisk(SeenDump(updated_seen))
    /\ wr' = FALSE
    /\ pc' = After("save")
    /\ UNCHANGED <<file0, err, seen, updated_seen, new_items, i, tenders,
                   results, replay, sent, saves, body>>

\* json.dump raises part-way (disk full), or the process is killed while the
\* file is open: only a beginning of the document is on disk.
SaveCut ==
    /\ pc = "save" /\ wr
    /\ \E k \in 0..(Len(SeenDump(updated_seen)) - 1) :
         file' = OnDisk(SubSeq(SeenDump(updated_seen), 1, k))
    /\ wr' = FALSE
    /\ pc' = "crashed"
    /\ err' = "save"
    /\ UNCHANGED <<file0, seen, updated_seen, new_items, i, tenders,
                   results, replay, sent, saves, body>>

\* The next scheduled run: a new process.  It may meet the same candidates
\* as the run that has just completed.
NextRun ==
    /\ pc \in {"done", "raised", "crashed"}
    /\ \E again \in BOOLEAN :
         /\ again => pc = "done"
         /\ replay' = again
         /\ results' = IF again THEN results
                       ELSE [n \in DOMAIN sources |-> Pending]
    /\ pc' = "start"
    /\ file0' = file
    /\ wr' = FALSE
    /\ err' = "none"
    /\ seen' = {}
    /\ updated_seen' = {}
    /\ new_items' = <<>>
    /\ i' = 1
    /\ tenders' = <<>>
    /\ sent' = FALSE
    /\ saves' = 0
    /\ body' = NoBody
    /\ UNCHANGED file

----------------------------------------------------------------------------
\* The values the parts of the module that are not running hold.

NotCalled == [called |-> FALSE]

IdleMatch ==
    /\ tier1 = TIER1_KEYWORDS /\ tier2 = TIER2_KEYWORDS
    /\ text = <<>>
    /\ verdict = NotCalled
IdleHist ==
    /\ history = <<>>
    /\ batch = <<>>
    /\ new_tenders = <<>>
    /\ history_in = <<>>
IdleLoad ==
    /\ stored = Absent
    /\ loaded = NotCalled
IdleFetch ==
    /\ urls = <<>>
    /\ max_workers = 1
    /\ fpc = "idle"
    /\ unique_urls = <<>>
    /\ futures = <<>>
    /\ yielded = {}
    /\ fetch_results = <<>>
    /\ escaping = FALSE

\* The runs of scraper.main.
Init == InitMain /\ IdleMatch /\ IdleHist /\ IdleLoad /\ IdleFetch
OnlyMain(A) == A /\ UNCHANGED <<matchVars, histVars, loadVars, fetchVars>>
Next ==
    \/ OnlyMain(LoadSeen)
    \/ OnlyMain(ScrapeReturn)
    \/ OnlyMain(ScrapeRaise)
    \/ OnlyMain(BuildEmail)
    \/ OnlyMain(BuildEmailRaise)
    \/ OnlyMain(LoadCreds)
    \/ OnlyMain(LoadCredsRaise)
    \/ OnlyMain(SendEmail)
    \/ OnlyMain(SendEmailRaise)
    \/ OnlyMain(SaveOpen)
    \/ OnlyMain(SaveOpenRaise)
    \/ OnlyMain(SaveWrite)
    \/ OnlyMain(SaveCut)
    \/ OnlyMain(NextRun)
Spec == Init /\ [][Next]_vars

----------------------------------------------------------------------------
\* Properties of the runs of scraper.main.

Ids(ts) == {ts[k].id : k \in DOMAIN ts}
EntriesWithId(x) == {k \in DOMAIN new_items : new_items[k].t.id = x}
SourceIndex(name) == CHOOSE n \in DOMAIN sources : sources[n] = name
\* The sources whose turn of the loop is over.
Scraped == IF pc = "start" THEN {} ELSE 1..(i - 1)
Ended == pc \in {"done", "raised", "crashed"}

\* What main makes of the first n sources when each returns res[n].tenders.
RECURSIVE RunItems(_, _, _)
RunItems(res, n, seen_) ==
    IF n = 0 THEN [new_items |-> <<>>, updated_seen |-> seen_]
    ELSE LET before == RunItems(res, n - 1, seen_)
         IN  for_tenders(sources[n], res[n].tenders, seen_,
                         before.new_items, before.updated_seen)

\* C1: a posting that two sources A and B (A before B) both return, and that
\* is not in the loaded seen set, is in new_items exactly once, attributed to
\* the first source that returned it.
C1_CrossSourceDedup ==
    \A a \in Scraped, b \in Scraped :
        a < b =>
            \A x \in (Ids(results[a].tenders) \cap Ids(results[b].tenders)) \ seen :
                LET first == CHOOSE n \in Scraped :
                                 /\ x \in Ids(results[n].tenders)
                                 /\ \A m \in Scraped :
                                        x \in Ids(results[m].tenders) => n <= m
                IN  /\ Cardinality(EntriesWithId(x)) = 1
                    /\ \A k \in EntriesWithId(x) :
                           new_items[k].source = sources[first]

\* C2: a run over the candidates of the run that has just completed, started
\* from the history that run saved, has no new items.
C2_SecondRunEmpty == replay => new_items = <<>>

C2_Witness ==
    /\ replay /\ pc = "done"
    /\ \E n \in DOMAIN sources : results[n].tenders # <<>>
    /\ \E n \in DOMAIN sources : results[n].state = "raised"

\* C3: no new item has an id that was in the history stored when the run
\* started.
C3_NewNotInHistory ==
    \A k \in DOMAIN new_items : new_items[k].t.id \notin load_seen(file0)

C3_Witness ==
    /\ pc = "done" /\ new_items # <<>>
    /\ \E n \in DOMAIN sources : Ids(results[n].tenders) \cap load_seen(file0) # {}

\* C4: every new item carries a non-empty list of Tier 1 hits, each a Tier 1
\* keyword, and the seen set gains only the ids of new items.
C4_Tier1Required ==
    /\ \A k \in DOMAIN new_items :
           /\ new_items[k].t.tier1 # <<>>
           /\ Range(new_items[k].t.tier1) \subseteq Range(TIER1_KEYWORDS)
    /\ \A x \in updated_seen \ seen : EntriesWithId(x) # {}

C4_Witness ==
    /\ pc = "done"
    /\ \E k \in DOMAIN new_items : new_items[k].t.title = <<"b">>
    /\ \E k \in DOMAIN new_items : new_items[k].t.tier2 = <<>>

\* C6: whatever happens during the save, a history file that held keys when
\* the run started holds either all of what it held then or all of the new
\* seen set, never nothing and never a part.
C6_AtomicSave ==
    load_seen(file0) # {} =>
        file = file0 \/ file = OnDisk(SeenDump(updated_seen))

\* C7: when the scraper of a source raises, the run goes on with the other
\* sources, no new item is attributed to that source, and new_items is what
\* it would be had that source returned an empty list.
C7_FailureIsolation ==
    /\ \A k \in DOMAIN new_items :
           results[SourceIndex(new_items[k].source)].state # "raised"
    /\ pc # "start" =>
           new_items = RunItems([n \in DOMAIN sources |->
                                    IF results[n].state = "raised"
                                    THEN Returned(<<>>) ELSE results[n]],
                                i - 1, seen).new_items
    /\ pc \notin {"start", "scrape"} => i = Len(sources) + 1

C7_Witness ==
    /\ pc = "done"
    /\ results[1].state = "raised"
    /\ results[2].tenders # <<>>
    /\ \E k \in DOMAIN new_items : new_items[k].source = sources[2]

\* The tenders of new_items attributed to the n-th source, in list order.
ItemsOf(n) ==
    LET FromSource(e) == e.source = sources[n]
        es == SelectSeq(new_items, FromSource)
    IN  [k \in DOMAIN es |-> es[k].t]

\* The tenders the n-th scraper returned that the loaded set lacks, in the
\* order it returned them.
UnseenOf(n) ==
    LET Unseen(t) == t.id \notin seen
    IN  SelectSeq(results[n].tenders, Unseen)

\* The source names of the headings of a digest, in order.
Headings(lines) ==
    LET IsHeading(l) == l.kind = "heading"
        hs == SelectSeq(lines, IsHeading)
    IN  [k \in DOMAIN hs |-> hs[k].v]

\* The titles of the items of a digest, in order.
Titles(lines) ==
    LET IsTitle(l) == l.kind = "title"
        ls == SelectSeq(lines, IsTitle)
    IN  [k \in DOMAIN ls |-> ls[k].v]

\* The headings name the sources that have items, each once, in the order of
\* the sources, and the items follow in the order of new_items.
GroupedBySource(lines) ==
    LET hs == Headings(lines)
    IN  /\ \A j, k \in DOMAIN hs : j < k => SourceIndex(hs[j]) < SourceIndex(hs[k])
        /\ Range(hs) = {new_items[k].source : k \in DOMAIN new_items}
        /\ Titles(lines) = [k \in DOMAIN new_items |-> new_items[k].t.title]

\* C14: new_items is ordered by the order of the sources and, within a
\* source, holds that source's unseen postings in the order its scraper
\* returned them; the items of a source are contiguous, and each digest
\* (text and HTML) has at most one heading per source.
C14_OrderPreserved ==
    /\ \A j, k \in DOMAIN new_items :
           j < k => SourceIndex(new_items[j].source) <= SourceIndex(new_items[k].source)
    /\ \A n \in DOMAIN sources :
           ItemsOf(n) = IF n \in Scraped THEN UnseenOf(n) ELSE <<>>
    /\ body # NoBody => GroupedBySource(body.text) /\ GroupedBySource(body.html)

\* A digest has been built of two different postings that one scraper
\* returned in one call.
C14_Witness ==
    /\ body # NoBody
    /\ Len(new_items) = 2
    /\ new_items[1].source = new_items[2].source
    /\ new_items[1].t.id # new_items[2].t.id

\* C9: save_seen is called at most once in a run and only after send_email
\* has returned; when building the digest, loading the credentials or
\* send_email raises, main ends there and the file is as the run found it.
C9_SaveAfterSend ==
    /\ saves <= 1
    /\ saves = 1 => sent
    /\ file # file0 => sent /\ saves = 1
    /\ err \in {"digest", "creds", "send"} =>
           pc = "raised" /\ saves = 0 /\ file = file0

C9_Witness ==
    /\ pc = "raised" /\ err = "send"
    /\ updated_seen # seen
    /\ load_seen(file0) # {}

\* C10: every key in the stored history when a run starts is in the stored
\* history when the run has ended.
C10_HistoryMonotone == Ended => load_seen(file0) \subseteq load_seen(file)

----------------------------------------------------------------------------
\* match_keywords on any text, under any taxonomy.

Chars == {"a", "A", "b"}
Keywords == {<<"a">>, <<"a", "b">>, <<"B">>}

InitMatch ==
    /\ tier1 \in SeqsUpTo(Keywords, MaxKw)
    /\ tier2 \in SeqsUpTo(Keywords, MaxKw)
    /\ text \in SeqsUpTo(Chars, MaxLen)
    /\ verdict = NotCalled

\* match, t1, t2 = match_keywords(text)
Classify ==
    /\ ~verdict.called
    /\ LET m == match_keywords(text, tier1, tier2)
       IN  verdict' = [called |-> TRUE, match |-> m.match,
                       tier1 |-> m.tier1, tier2 |-> m.tier2]
    /\ UNCHANGED <<tier1, tier2, text>>

\* Another text, under the same taxonomy.
NextText ==
    /\ verdict.called
    /\ text' \in SeqsUpTo(Chars, MaxLen)
    /\ verdict' = NotCalled
    /\ UNCHANGED <<tier1, tier2>>

OnlyMatch(A) == A /\ UNCHANGED <<mainVars, histVars, loadVars, fetchVars>>
SpecMatchInit == IdleMain /\ InitMatch /\ IdleHist /\ IdleLoad /\ IdleFetch
SpecMatchNext ==
    \/ OnlyMatch(Classify)
    \/ OnlyMatch(NextText)
SpecMatch == SpecMatchInit /\ [][SpecMatchNext]_vars

\* The places of the keywords of kws that occur in the lowercased text.
HitPlaces(kws) == {k \in DOMAIN kws : IsSubstr(kws[k], Lower(text))}

\* hits lists the keywords of kws at the places idx, in the order of kws.
ListsInOrder(hits, kws, idx) ==
    /\ Len(hits) = Cardinality(idx)
    /\ \E f \in [DOMAIN hits -> idx] :
           /\ \A j \in DOMAIN hits : hits[j] = kws[f[j]]
           /\ \A j, k \in DOMAIN hits : j < k => f[j] < f[k]

\* C8: match_keywords returns (False, [], []) when no Tier 1 keyword is a
\* substring of the lowercased text, whatever Tier 2 holds; otherwise True,
\* the Tier 1 keywords found and the Tier 2 keywords found, each in the
\* order of its keyword list.
C8_Tier1Gate ==
    verdict.called =>
        IF HitPlaces(tier1) = {}
        THEN verdict = [called |-> TRUE, match |-> FALSE,
                        tier1 |-> <<>>, tier2 |-> <<>>]
        ELSE /\ verdict.match
             /\ ListsInOrder(verdict.tier1, tier1, HitPlaces(tier1))
             /\ ListsInOrder(verdict.tier2, tier2, HitPlaces(tier2))

C8_Witness ==
    /\ verdict.called /\ ~verdict.match
    /\ HitPlaces(tier2) # {}
    /\ tier1 # <<>>
    /\ text # Lower(text)

----------------------------------------------------------------------------
\* history.py: the history dict and filter_new_tenders.

\* `tender.get(field) or ""`
OrEmpty(x) == IF x = None THEN <<>> ELSE x

\* _make_key(tender)
_make_key(tender) ==
    LET url == Lower(Strip(OrEmpty(tender.url)))
        title == Lower(Strip(OrEmpty(tender.title)))
    IN  url \o <<"|", "|">> \o title

\* The entry stored in a copy that the caller never sees.
StoredInCopy(h, key, t) == h

\* history[key] = {"source": ..., "title": ..., "url": ...}
Stored(h, key, t) ==
    [k \in (DOMAIN h) \cup {key} |->
        IF k = key
        THEN [source |-> t.source, title |-> t.title, url |-> t.url]
        ELSE h[k]]

\* filter_new_tenders(tenders, history): the list returned and the history
\* dict as the call leaves it.
RECURSIVE filter_new_tenders(_, _, _)
filter_new_tenders(ts, h, new) ==
    IF ts = <<>> THEN [new_tenders |-> new, history |-> h]
    ELSE LET t == Head(ts)
             key == _make_key(t)
         IN  IF key = <<>>                       \* `if not key`
             THEN filter_new_tenders(Tail(ts), h, Append(new, t))
             ELSE IF key \in DOMAIN h
             THEN filter_new_tenders(Tail(ts), h, new)
             ELSE filter_new_tenders(Tail(ts), Stored(h, key, t), Append(new, t))

\* The tender dicts a caller can pass: the same posting under two sources
\* with its url and title written differently, two postings with neither url
\* nor title, and one with a title only.
Tenders ==
    { [source |-> "S1", title |-> <<"A">>, url |-> <<"u">>],
      [source |-> "S2", title |-> <<"a">>, url |-> <<" ", "U">>],
      [source |-> "S1", title |-> None, url |-> <<>>],
      [source |-> "S2", title |-> <<>>, url |-> None],
      [source |-> "S2", title |-> <<"A">>, url |-> <<>>] }

\* A call new = filter_new_tenders(tenders, history) on the caller's dict.
FilterNewTenders ==
    \E ts \in SeqsUpTo(Tenders, MaxBatch) :
        LET r == filter_new_tenders(ts, history, <<>>)
        IN  /\ batch' = ts
            /\ history_in' = history
            /\ new_tenders' = r.new_tenders
            /\ history' = r.history

\* The caller's next run: the history of load_history() on a missing file.
FreshHistory ==
    /\ history # <<>>
    /\ history' = <<>>
    /\ batch' = <<>>
    /\ new_tenders' = <<>>
    /\ history_in' = <<>>

OnlyHist(A) == A /\ UNCHANGED <<mainVars, matchVars, loadVars, fetchVars>>
SpecHistInit == IdleMain /\ IdleMatch /\ IdleHist /\ IdleLoad /\ IdleFetch
SpecHistNext ==
    \/ OnlyHist(FilterNewTenders)
    \/ OnlyHist(FreshHistory)
SpecHist == SpecHistInit /\ [][SpecHistNext]_vars

EmptyField(x) == x = None \/ x = <<>>
Unkeyable(t) == EmptyField(t.url) /\ EmptyField(t.title)

\* C5: a posting whose url and title are both empty or missing is returned
\* as new by every call, whatever the history holds, and the history gets no
\* entry for it.
C5_UnkeyableAlwaysNew ==
    /\ SelectSeq(new_tenders, Unkeyable) = SelectSeq(batch, Unkeyable)
    /\ \A k \in DOMAIN batch :
           Unkeyable(batch[k]) => _make_key(batch[k]) \notin DOMAIN history

\* filter_new_tenders on one shared history (the history.py side of C1 and
\* C3): the list returned holds, in order, the first tender of each key that
\* the history did not hold when the call started.
Hist_FirstOfEachNewKey ==
    LET IsFirstNew(k) ==
            /\ _make_key(batch[k]) \notin DOMAIN history_in
            /\ \A j \in 1..(k - 1) : _make_key(batch[j]) # _make_key(batch[k])
        firsts == {k \in DOMAIN batch : IsFirstNew(k)}
    IN  /\ ListsInOrder(new_tenders, batch, firsts)
        /\ DOMAIN history = (DOMAIN history_in) \cup {_make_key(batch[k]) : k \in DOMAIN batch}

\* The history.py side of C2: a call on a list whose keys the history holds
\* returns nothing.
Hist_SecondCallEmpty ==
    [][(\A k \in DOMAIN batch' : _make_key(batch'[k]) \in DOMAIN history)
          => new_tenders' = <<>>]_vars

\* C12: two postings whose urls differ only in letter case or surrounding
\* blanks, and whose titles differ only so, have one identity key: once the
\* first is recorded, main does not report the second as new.
C12_IdentityStable ==
    \A k \in DOMAIN new_items :
        ~ /\ EarlierPosting.url \in seen
          /\ _make_key(EarlierPosting) = _make_key(new_items[k].t)

\* C13 as stated: the history passed to the dedup step has the same contents
\* after the step as before it.
C13_InputHistoryUnchanged == history = history_in

Keys(ts) == {_make_key(ts[k]) : k \in DOMAIN ts}

\* C13, amended: filter_new_tenders updates the dict it is passed: after the
\* call the dict holds every entry it held before, unchanged, and besides
\* them exactly one entry for the key of each tender returned as new.
C13_HistoryUpdatedInPlace ==
    /\ \A key \in DOMAIN history_in :
           key \in DOMAIN history /\ history[key] = history_in[key]
    /\ (DOMAIN history) \ (DOMAIN history_in) = Keys(new_tenders)
    /\ \A k \in DOMAIN new_tenders :
           history[_make_key(new_tenders[k])].url = new_tenders[k].url

\* A call on a dict that held an entry has returned a new tender.
C13_Witness ==
    /\ history_in # <<>>
    /\ new_tenders # <<>>
    /\ history # history_in

\* The main side of C13: the loop over the sources leaves the loaded set as
\* load_seen() returned it, and only updated_seen gains ids.
Main_SeenUnchanged ==
    pc # "start" =>
        /\ seen = load_seen(file0)
        /\ updated_seen = seen \cup {new_items[k].t.id : k \in DOMAIN new_items}

----------------------------------------------------------------------------
\* load_seen and load_history on every history file.

\* What the file can hold between its brackets: ids as save_seen writes them
\* and entries as save_history writes them, the same key under two values.
Entry(key, title) ==
    [key |-> key, value |-> [source |-> "S1", title |-> title, url |-> <<"u">>]]

FileTokens ==
    { Tok("[", <<>>), Tok("]", <<>>), Tok("{", <<>>), Tok("}", <<>>),
      Tok("s", <<"u">>), Tok("s", <<"v">>),
      Tok("k", Entry(<<"u", "|", "|", "a">>, <<"a">>)),
      Tok("k", Entry(<<"u", "|", "|", "a">>, <<"A">>)) }

\* Every file: missing, or there with any text, readable or not.
LoadFiles ==
    {Absent} \cup {OnDisk(tx) : tx \in SeqsUpTo(FileTokens, MaxFileLen)}
             \cup {Unreadable(tx) : tx \in SeqsUpTo(FileTokens, MaxFileLen)}

InitLoad ==
    /\ stored \in LoadFiles
    /\ loaded = NotCalled

\* A caller calls load_seen().
CallLoadSeen ==
    /\ loaded' = [called |-> TRUE, fn |-> "load_seen", r |-> load_seen_call(stored)]
    /\ UNCHANGED stored

\* A caller calls load_history().
CallLoadHistory ==
    /\ loaded' = [called |-> TRUE, fn |-> "load_history", r |-> load_history_call(stored)]
    /\ UNCHANGED stored

OnlyLoad(A) == A /\ UNCHANGED <<mainVars, matchVars, histVars, fetchVars>>
SpecLoadInit == IdleMain /\ IdleMatch /\ IdleHist /\ InitLoad /\ IdleFetch
SpecLoadNext ==
    \/ OnlyLoad(CallLoadSeen)
    \/ OnlyLoad(CallLoadHistory)
SpecLoad == SpecLoadInit /\ [][SpecLoadNext]_vars

\* The file is not a readable JSON document of the shape the loader expects.
BadFor(fn, f) ==
    \/ ~f.exists
    \/ ~f.readable
    \/ ~IsJson(f.text)
    \/ fn = "load_seen" /\ ~IsJsonList(f.text)
    \/ fn = "load_history" /\ ~IsJsonDict(f.text)

EmptyFor(fn) == IF fn = "load_seen" THEN {} ELSE <<>>

\* C11: a call of load_seen or load_history raises nothing to its caller, and
\* on a history file that is absent, unreadable, not valid JSON, or valid
\* JSON of the wrong top-level shape it returns the empty set (load_seen) or
\* the empty dict (load_history).
C11_LoadNeverRaises ==
    loaded.called =>
        /\ ~loaded.r.raised
        /\ BadFor(loaded.fn, stored) => loaded.r.val = EmptyFor(loaded.fn)

\* A loader has returned on a file that is there, holds a list of ids, and
\* cannot be opened.
C11_Witness ==
    /\ loaded.called
    /\ stored.exists /\ ~stored.readable
    /\ IsJsonList(stored.text) /\ Len(stored.text) > 2

\* A readable file of the right shape is loaded with its contents.
Load_GoodFileRead ==
    /\ loaded.called /\ loaded.fn = "load_seen" /\ ~BadFor("load_seen", stored)
        => loaded.r.val = {stored.text[k].v : k \in 2..(Len(stored.text) - 1)}
    /\ loaded.called /\ loaded.fn = "load_history" /\ ~BadFor("load_history", stored)
        => DOMAIN loaded.r.val = {stored.text[k].v.key : k \in 2..(Len(stored.text) - 1)}

----------------------------------------------------------------------------
\* fetch and fetch_many: one calling thread and the workers of the pool.

\* What requests.get(url, headers=..., timeout=30) can come to: a response
\* with status 200 and a text, a response with another status, an exception.
Responses ==
    {[raised |-> FALSE, status_code |-> 200, text |-> tx] : tx \in Pages \ {None}}
        \cup {[raised |-> FALSE, status_code |-> 404, text |-> <<>>],
              [raised |-> TRUE, status_code |-> 0, text |-> <<>>]}

\* fetch(url), given what requests.get comes to.
fetch(resp) ==
    IF resp.raised THEN None                    \* except Exception ... return None
    ELSE IF resp.status_code = 200 THEN resp.text
    ELSE None

\* _fetch_one(u): `return u, fetch(u)`
_fetch_one(u, resp) == Ret(<<u, fetch(resp)>>)

\* list(dict.fromkeys(urls)): the first occurrence of each url, in order.
RECURSIVE dict_fromkeys(_, _)
dict_fromkeys(us, kept) ==
    IF us = <<>> THEN kept
    ELSE IF Head(us) \in Range(kept)
    THEN dict_fromkeys(Tail(us), kept)
    ELSE dict_fromkeys(Tail(us), Append(kept, Head(us)))

\* results[url] = html
Put(d, url, html) ==
    [u \in (DOMAIN d) \cup {url} |-> IF u = url THEN html ELSE d[u]]

NoResponse == [raised |-> FALSE, status_code |-> 0, text |-> <<>>]
Future(u) == [url |-> u, state |-> "pending", resp |-> NoResponse, r |-> Ret(<<>>)]

StateIs(st) == {k \in DOMAIN futures : futures[k].state = st}

\* The loop over the futures left at the first one that completed.
AnyYielded(fs, ys) == fs = <<>> \/ ys # {}

\* `for future in as_completed(future_to_url)` has run out: every future
\* submitted has been yielded.
AllYielded(fs, ys) == ys = DOMAIN fs

InitFetch ==
    /\ urls \in SeqsUpTo(Urls, MaxUrls)
    /\ max_workers \in 1..MaxWorkers
    /\ fpc = "call"
    /\ unique_urls = <<>>
    /\ futures = <<>>
    /\ yielded = {}
    /\ fetch_results = <<>>
    /\ escaping = FALSE

\* results = {}; unique_urls = list(dict.fromkeys(urls)); the pool is made.
Dedupe ==
    /\ fpc = "call"
    /\ unique_urls' = dict_fromkeys(urls, <<>>)
    /\ fpc' = IF unique_urls' = <<>> THEN "collect" ELSE "submit"
    /\ UNCHANGED <<urls, max_workers, futures, yielded, fetch_results, escaping>>

\* One turn of the dict comprehension: executor.submit(_fetch_one, u).
Submit ==
    /\ fpc = "submit"
    /\ futures' = Append(futures, Future(unique_urls[Len(futures) + 1]))
    /\ fpc' = IF Len(futures') = Len(unique_urls) THEN "collect" ELSE "submit"
    /\ UNCHANGED <<urls, max_workers, unique_urls, yielded, fetch_results, escaping>>

\* A worker of the pool takes the oldest work item of the queue; the pool
\* has at most max_workers threads.
WorkerStart ==
    /\ StateIs("pending") # {}
    /\ Cardinality(StateIs("running")) < max_workers
    /\ LET k == CHOOSE n \in StateIs("pending") : \A m \in StateIs("pending") : n <= m
       IN  futures' = [futures EXCEPT ![k].state = "running"]
    /\ UNCHANGED <<urls, max_workers, fpc, unique_urls, yielded, fetch_results, escaping>>

\* A worker ends its call of _fetch_one: it returns (u, fetch(u)), or an
\* exception that fetch does not catch leaves it and is kept in the future.
WorkerFinish ==
    /\ \E k \in StateIs("running") :
         \E resp \in Responses, failed \in BOOLEAN :
             futures' = [futures EXCEPT
                            ![k].state = "done",
                            ![k].resp = resp,
                            ![k].r = IF failed THEN Exc("RuntimeError")
                                     ELSE _fetch_one(futures[k].url, resp)]
    /\ UNCHANGED <<urls, max_workers, fpc, unique_urls, yielded, fetch_results, escaping>>

\* One turn of the loop over as_completed(future_to_url): a future that is
\* done and was not yielded yet; future.result() and the handler.
Collect ==
    /\ fpc = "collect"
    /\ ~AllYielded(futures, yielded)
    /\ \E k \in StateIs("done") \ yielded :
         LET handled == except_Exception(futures[k].r, <<futures[k].url, None>>)
         IN  /\ yielded' = yielded \cup {k}
             /\ IF handled.raised
                THEN /\ escaping' = TRUE
                     /\ fpc' = "shutdown"
                     /\ UNCHANGED fetch_results
                ELSE /\ fetch_results' = Put(fetch_results, handled.val[1], handled.val[2])
                     /\ UNCHANGED <<fpc, escaping>>
    /\ UNCHANGED <<urls, max_workers, unique_urls, futures>>

\* The loop is over.
CollectEnd ==
    /\ fpc = "collect"
    /\ AllYielded(futures, yielded)
    /\ fpc' = "shutdown"
    /\ UNCHANGED <<urls, max_workers, unique_urls, futures, yielded,
                   fetch_results, escaping>>

\* The end of the with block: executor.shutdown(wait=True) returns when no
\* worker is left with work; then `return results`, or the exception goes on.
Shutdown ==
    /\ fpc = "shutdown"
    /\ StateIs("done") = DOMAIN futures
    /\ fpc' = IF escaping THEN "raised" ELSE "returned"
    /\ UNCHANGED <<urls, max_workers, unique_urls, futures, yielded,
                   fetch_results, escaping>>

OnlyFetch(A) == A /\ UNCHANGED <<mainVars, matchVars, histVars, loadVars>>
SpecFetchInit == IdleMain /\ IdleMatch /\ IdleHist /\ IdleLoad /\ InitFetch
SpecFetchNext ==
    \/ OnlyFetch(Dedupe)
    \/ OnlyFetch(Submit)
    \/ OnlyFetch(WorkerStart)
    \/ OnlyFetch(WorkerFinish)
    \/ OnlyFetch(Collect)
    \/ OnlyFetch(CollectEnd)
    \/ OnlyFetch(Shutdown)
SpecFetch == SpecFetchInit /\ [][SpecFetchNext]_vars

\* What the fetch of a future's url gave: the text of a 200 response, None
\* for anything else.
PageOf(f) ==
    IF ~f.r.raised /\ ~f.resp.raised /\ f.resp.status_code = 200
    THEN f.resp.text ELSE None

\* C15: when fetch_many has ended, whatever the urls, the pool size and the
\* order in which the workers ran and completed, it has returned and not
\* raised, every worker has finished, and the dict returned has exactly one
\* entry per distinct url of the list: the page text, or None when the fetch
\* of that url failed.
C15_FanIn ==
    fpc \in {"returned", "raised"} =>
        /\ fpc = "returned"
        /\ \A k \in DOMAIN futures : futures[k].state = "done"
        /\ DOMAIN fetch_results = Range(urls)
        /\ \A u \in Range(urls) :
               /\ Cardinality({k \in DOMAIN futures : futures[k].url = u}) = 1
               /\ \A k \in DOMAIN futures :
                      futures[k].url = u => fetch_results[u] = PageOf(futures[k])

\* fetch_many has returned on a list that names a url twice, with one worker
\* thread for the two fetches: one gave its page and the other failed.
C15_Witness ==
    /\ fpc = "returned"
    /\ Len(urls) > Len(unique_urls)
    /\ Len(unique_urls) = 2
    /\ max_workers = 1
    /\ \E u, v \in Range(urls) :
           /\ fetch_results[u] # None
           /\ fetch_results[v] = None

====
